---- MODULE Spec2Model ----
(***************************************************************************)
(* clock-app: the event loop of main() and the Renderer of src/main.rs.    *)
(*                                                                         *)
(* main() builds the window and the Renderer, takes the rotation baseline, *)
(* loads the pictures, sets a first picture and then runs the event loop;  *)
(* the closure given to event_loop.run is modelled one event at a time.    *)
(* Time is a discrete monotonic clock (std::time::Instant).                *)
(***************************************************************************)
EXTENDS Integers, Sequences, FiniteSets, TLC

\* ---------------------------------------------------------------- bounds

\* The clock stops advancing at MaxTime.
MaxTime == 4
\* The scenario of ScenarioSpec processes this many timer-driven redraws.
ScenarioRedraws == 15

\* Physical sizes the window system can report (0 while minimized).
Widths == {0, 640, 800}
Heights == {0, 480}
Sizes == {[width |-> w, height |-> h] : w \in Widths, h \in Heights}

\* --width and --height: the default 800x480, and a window of no height.
InitialSizes == {[width |-> 800, height |-> 480], [width |-> 800, height |-> 0]}

\* --update-interval and --picture-interval, both in units of the clock.
UpdateIntervals == {1, 2}
PictureIntervals == {1, 2}

\* --picture-width and --picture-height.
PictureSizes == {[width |-> 3, height |-> 2]}

\* Rotation intervals of the scenario, all multiples of its 1-unit spacing.
ScenarioIntervals == {1, 2, 5, 10}

\* ------------------------------------------------------- picture directory

\* A directory entry: whether read_dir yields it, its file name (characters),
\* and what image::open makes of it (<<>> when it does not decode, else <<c>>,
\* the colour of the decoded image).
Entry(ok, name, image) == [ok |-> ok, name |-> name, image |-> image]

ValidA == Entry(TRUE, <<"a">>, <<1>>)
ValidB == Entry(TRUE, <<"b">>, <<2>>)
Hidden == Entry(TRUE, <<".", "h">>, <<2>>)
Corrupt == Entry(TRUE, <<"c">>, <<>>)
Broken == Entry(FALSE, <<"d">>, <<1>>)

\* The directories --picture-path may name; "unreadable" makes read_dir fail.
Directories ==
    { [readable |-> FALSE, entries |-> <<>>],
      [readable |-> TRUE, entries |-> <<Hidden, Corrupt, Broken>>],
      [readable |-> TRUE, entries |-> <<ValidA>>],
      [readable |-> TRUE, entries |-> <<ValidA, Hidden, Corrupt, ValidB>>] }

\* file_name().to_str().map_or(false, |name| !name.starts_with('.'))
NotHidden(entry) == ~(Len(entry.name) > 0 /\ entry.name[1] = ".")

\* to_rgb8 in place of to_rgba8: three bytes a pixel.
ToRgb8(image, width, height) == [i \in 1..(width * height * 3) |-> image[1]]

\* img.resize_to_fill(width, height, ..).to_rgba8().to_vec()
ToRgba8(image, width, height) == [i \in 1..(width * height * 4) |-> image[1]]

RECURSIVE MapRgba8(_, _, _)
MapRgba8(entries, width, height) ==
    IF entries = <<>> THEN <<>>
    ELSE <<ToRgba8(Head(entries).image, width, height)>>
             \o MapRgba8(Tail(entries), width, height)

Yielded(entry) == entry.ok
Decodes(entry) == entry.image # <<>>

\* load_pictures: the filter chain over the directory's entries.
load_pictures(dir, width, height) ==
    MapRgba8(
        SelectSeq(SelectSeq(SelectSeq(dir.entries, Yielded), NotHidden), Decodes),
        width, height)

\* ------------------------------------------------------------------ state

VARIABLES
    pc,                         \* where main() is
    now,                        \* the monotonic clock
    args,                       \* the parsed command line
    directory,                  \* what --picture-path holds
    inner_size,                 \* the window's physical inner size
    config,                     \* Renderer.config (width, height)
    text_pipeline,              \* size the Text Overlay Layer was last given
    picture_pipeline,           \* Picture Layer: its size and texture content
    picture_interval_instance,  \* the rotation baseline
    pictures,                   \* the loaded picture set
    control_flow,               \* winit's ControlFlow
    redraw_requested,           \* a redraw request the window system holds
    rotations,                  \* set_picture calls made inside the event loop
    last_picture,               \* the data of the latest renderer.set_picture call
    set_picture_at,             \* the time of the latest renderer.set_picture call
    cycle                       \* the last event handled and the calls it made

vars == <<pc, now, args, directory, inner_size, config, text_pipeline,
          picture_pipeline, picture_interval_instance, pictures, control_flow,
          redraw_requested, rotations, last_picture, set_picture_at, cycle>>

NoSize == [width |-> 0, height |-> 0]
NoCycle == [kind |-> "none", window |-> "none", size |-> NoSize,
            elapsed |-> <<>>, calls |-> <<>>, gpu |-> <<>>]

Call(op, arg) == [op |-> op, arg |-> arg]

Init ==
    /\ pc = "renderer_new"
    /\ now = 0
    /\ args \in [update_interval : UpdateIntervals,
                 picture_interval : PictureIntervals,
                 picture : PictureSizes]
    /\ directory \in Directories
    /\ inner_size \in InitialSizes
    /\ config = NoSize
    /\ text_pipeline = NoSize
    /\ picture_pipeline = [width |-> 0, height |-> 0, texture |-> <<>>]
    /\ picture_interval_instance = 0
    /\ pictures = <<>>
    /\ control_flow = [kind |-> "Poll", deadline |-> 0]
    /\ redraw_requested = FALSE
    /\ rotations = 0
    /\ last_picture = <<>>
    /\ set_picture_at = 0
    /\ cycle = NoCycle

\* The clock advances (Instant is monotonic).
Tick(limit) ==
    /\ pc \in {"load_pictures", "event_loop_init", "event_loop"}
    /\ now < limit
    /\ now' = now + 1
    /\ UNCHANGED <<pc, args, directory, inner_size, config, text_pipeline,
                   picture_pipeline, picture_interval_instance, pictures,
                   control_flow, redraw_requested, rotations, last_picture,
                   cycle, set_picture_at>>

\* ------------------------------------------------- layers (picture, text)

\* PicturePipeline::new: a texture of the picture size, nothing uploaded yet.
PicturePipeline_new(width, height) ==
    [width |-> width, height |-> height, texture |-> <<>>]

\* PicturePipeline::set_picture: the upload replaces the texture content.
PicturePipeline_set_picture(pipeline, data) ==
    [pipeline EXCEPT !.texture = data]

\* PicturePipeline::draw: one render pass drawing the current texture.
PicturePipeline_draw(pipeline, encoder) ==
    Append(encoder, Call("picture_pipeline.draw", pipeline.texture))

\* TextPipeline::new and TextPipeline::resize: the overlay's layout size.
TextPipeline_new(width, height) == [width |-> width, height |-> height]

TextPipeline_resize(pipeline, width, height) ==
    [width |-> width, height |-> height]

\* TextPipeline::draw: one render pass over what the view already holds.
TextPipeline_draw(pipeline, encoder) ==
    Append(encoder, Call("text_pipeline.draw", <<>>))

\* ---------------------------------------------------------------- Renderer

\* Renderer::match_window: self.window.id() == window_id.
WindowIds == {"main", "other"}
match_window(window_id) == window_id = "main"

\* Renderer::new, with size = window.inner_size(): the surface configuration is
\* derived from it and applied as it is, then both layers are built.
Renderer_new(size, picture_width, picture_height) ==
    [config |-> [width |-> size.width, height |-> size.height],
     picture_pipeline |-> PicturePipeline_new(picture_width, picture_height),
     text_pipeline |-> TextPipeline_new(size.width, size.height),
     gpu |-> <<Call("surface.configure", <<size.width, size.height>>),
               Call("PicturePipeline::new", <<picture_width, picture_height>>),
               Call("TextPipeline::new", <<size.width, size.height>>)>>]

\* The guard of Renderer::resize with the height test left out.
NonZeroArea_WidthOnly(new_inner_size) == 0 < new_inner_size.width

\* The guard of Renderer::resize.
NonZeroArea(new_inner_size) ==
    0 < new_inner_size.width /\ 0 < new_inner_size.height

\* Renderer::resize without the call that resizes the Text Overlay Layer.
Renderer_resize_NoText(new_inner_size) ==
    IF NonZeroArea(new_inner_size)
    THEN [config |-> [width |-> new_inner_size.width,
                      height |-> new_inner_size.height],
          text_pipeline |-> text_pipeline,
          gpu |-> <<Call("surface.configure",
                         <<new_inner_size.width, new_inner_size.height>>)>>]
    ELSE [config |-> config, text_pipeline |-> text_pipeline, gpu |-> <<>>]

\* Renderer::resize: the configuration, the overlay size and the calls made.
Renderer_resize(new_inner_size) ==
    IF NonZeroArea(new_inner_size)
    THEN [config |-> [width |-> new_inner_size.width,
                      height |-> new_inner_size.height],
          text_pipeline |-> TextPipeline_resize(text_pipeline,
                                new_inner_size.width, new_inner_size.height),
          gpu |-> <<Call("surface.configure",
                         <<new_inner_size.width, new_inner_size.height>>),
                    Call("text_pipeline.resize",
                         <<new_inner_size.width, new_inner_size.height>>)>>]
    ELSE [config |-> config, text_pipeline |-> text_pipeline, gpu |-> <<>>]

\* Renderer::set_picture that never uploads the data.
Renderer_set_picture_NoUpload(pipeline, data) ==
    [picture_pipeline |-> pipeline, gpu |-> <<>>]

\* Renderer::set_picture: the data goes to the Picture Layer through the queue.
Renderer_set_picture(pipeline, data) ==
    [picture_pipeline |-> PicturePipeline_set_picture(pipeline, data),
     gpu |-> <<Call("picture_pipeline.set_picture", data)>>]

\* The two passes of Renderer::draw recorded text first.
DrawPasses_TextFirst(pipeline, text) ==
    PicturePipeline_draw(pipeline, TextPipeline_draw(text, <<>>))

\* The passes Renderer::draw records into its encoder, in order.
DrawPasses(pipeline, text) ==
    TextPipeline_draw(text, PicturePipeline_draw(pipeline, <<>>))

\* Renderer::draw: acquire, record both passes, submit once, present. The
\* frame is taken to be acquired (get_current_texture().unwrap() succeeds).
Renderer_draw(pipeline, text) ==
    LET encoder == DrawPasses(pipeline, text) IN
    <<Call("surface.get_current_texture", <<>>)>>
        \o encoder
        \o <<Call("queue.submit", <<Len(encoder)>>),
             Call("frame.present", <<>>)>>

\* Renderer::request_redraw.
Renderer_request_redraw == <<Call("window.request_redraw", <<>>)>>

\* ------------------------------------------------------------------ main()

\* Lines 38-47: the window is built with the requested inner size and the
\* Renderer is constructed for it.
RendererNew ==
    /\ pc = "renderer_new"
    /\ LET r == Renderer_new(inner_size, args.picture.width,
                              args.picture.height) IN
       /\ config' = r.config
       /\ picture_pipeline' = r.picture_pipeline
       /\ text_pipeline' = r.text_pipeline
       /\ cycle' = [NoCycle EXCEPT !.kind = "Renderer::new", !.gpu = r.gpu]
    /\ pc' = "instant_now"
    /\ UNCHANGED <<now, args, directory, inner_size,
                   picture_interval_instance, pictures, control_flow,
                   redraw_requested, rotations, last_picture, set_picture_at>>

\* Lines 48-49: the rotation baseline is taken before the pictures are loaded.
InstantNow ==
    /\ pc = "instant_now"
    /\ picture_interval_instance' = now
    /\ pc' = "load_pictures"
    /\ UNCHANGED <<now, args, directory, inner_size, config, text_pipeline,
                   picture_pipeline, pictures, control_flow, redraw_requested,
                   rotations, last_picture, cycle, set_picture_at>>

\* Line 50: load_pictures; read_dir(path).unwrap() panics on an unreadable
\* directory.
LoadPictures ==
    /\ pc = "load_pictures"
    /\ IF directory.readable
       THEN /\ pictures' = load_pictures(directory, args.picture.width,
                                            args.picture.height)
            /\ pc' = "first_picture"
       ELSE /\ pictures' = pictures
            /\ pc' = "panicked"
    /\ UNCHANGED <<now, args, directory, inner_size, config, text_pipeline,
                   picture_pipeline, picture_interval_instance, control_flow,
                   redraw_requested, rotations, last_picture, cycle,
                   set_picture_at>>

\* main without lines 52-54's set_picture call: the loop starts with the
\* Picture Layer as PicturePipeline::new left it.
FirstPicture_NoSetPicture ==
    /\ pc = "first_picture"
    /\ IF pictures = <<>>
       THEN pc' = "panicked"
       ELSE pc' = "event_loop_init"
    /\ UNCHANGED <<now, args, directory, inner_size, config, text_pipeline,
                   picture_pipeline, picture_interval_instance, pictures,
                   control_flow, redraw_requested, rotations, last_picture,
                   set_picture_at, cycle>>

\* The first picture taken with `if let Some(..)` in place of unwrap(): an
\* empty set reaches the event loop.
FirstPicture_NoUnwrap ==
    /\ pc = "first_picture"
    /\ IF pictures = <<>>
       THEN /\ pc' = "event_loop_init"
            /\ UNCHANGED <<picture_pipeline, last_picture, set_picture_at,
                           cycle>>
       ELSE \E i \in 1..Len(pictures) :
              LET r == Renderer_set_picture(picture_pipeline, pictures[i]) IN
              /\ picture_pipeline' = r.picture_pipeline
              /\ last_picture' = pictures[i]
              /\ set_picture_at' = now
              /\ cycle' = [NoCycle EXCEPT
                              !.kind = "startup",
                              !.calls = <<Call("renderer.set_picture", pictures[i])>>,
                              !.gpu = r.gpu]
              /\ pc' = "event_loop_init"
    /\ UNCHANGED <<now, args, directory, inner_size, config, text_pipeline,
                   picture_interval_instance, pictures, control_flow,
                   redraw_requested, rotations>>

\* Lines 52-54: pictures.choose(&mut rng).unwrap() panics on an empty set;
\* otherwise a random picture is set before the loop starts.
FirstPicture ==
    /\ pc = "first_picture"
    /\ IF pictures = <<>>
       THEN /\ pc' = "panicked"
            /\ UNCHANGED <<picture_pipeline, last_picture, set_picture_at,
                           cycle>>
       ELSE \E i \in 1..Len(pictures) :
              LET r == Renderer_set_picture(picture_pipeline, pictures[i]) IN
              /\ picture_pipeline' = r.picture_pipeline
              /\ last_picture' = pictures[i]
              /\ set_picture_at' = now
              /\ cycle' = [NoCycle EXCEPT
                              !.kind = "startup",
                              !.calls = <<Call("renderer.set_picture", pictures[i])>>,
                              !.gpu = r.gpu]
              /\ pc' = "event_loop_init"
    /\ UNCHANGED <<now, args, directory, inner_size, config, text_pipeline,
                   picture_interval_instance, pictures, control_flow,
                   redraw_requested, rotations>>

\* -------------------------------------------------------------- event loop

\* control_flow.set_wait_timeout(timeout): wait until now + timeout.
set_wait_timeout(timeout) == [kind |-> "WaitUntil", deadline |-> now + timeout]

\* control_flow.set_exit().
set_exit == [kind |-> "ExitWithCode", deadline |-> control_flow.deadline]

\* The comparison of line 69 the other way round.
RotationDue_Inverted(picture_interval, elapsed) == elapsed < picture_interval

\* The comparison of line 69 one unit late.
RotationDue_Late(picture_interval, elapsed) == picture_interval + 1 < elapsed

\* Line 69: picture_interval < picture_interval_instance.elapsed().
RotationDue(picture_interval, elapsed) == picture_interval < elapsed

\* picture_interval_instance.elapsed().
Elapsed == now - picture_interval_instance

Log(kind, window, size, elapsed, calls, gpu) ==
    [kind |-> kind, window |-> window, size |-> size, elapsed |-> elapsed,
     calls |-> calls, gpu |-> gpu]

\* The window system hands the closure events only while the loop runs; the
\* closure itself never looks at control_flow before acting.
Running == pc = "event_loop"

\* Lines 61-63: Event::NewEvents(StartCause::Init), the first event of the loop.
NewEventsInit ==
    /\ pc = "event_loop_init"
    /\ pc' = "event_loop"
    /\ control_flow' = set_wait_timeout(args.update_interval)
    /\ cycle' = Log("Init", "none", NoSize, <<>>,
                    <<Call("control_flow.set_wait_timeout",
                           <<args.update_interval>>)>>, <<>>)
    /\ UNCHANGED <<now, args, directory, inner_size, config, text_pipeline,
                   picture_pipeline, picture_interval_instance, pictures,
                   redraw_requested, rotations, last_picture, set_picture_at>>

\* The timer arm without line 66: the wait is never re-armed.
ResumeTimeReached_NoRearm ==
    /\ pc = "event_loop"
    /\ control_flow.kind = "WaitUntil"
    /\ control_flow.deadline <= now
    /\ redraw_requested' = TRUE
    /\ cycle' = [kind |-> "ResumeTimeReached", window |-> "none",
                 size |-> NoSize, elapsed |-> <<>>,
                 calls |-> <<Call("renderer.request_redraw", <<>>)>>,
                 gpu |-> Renderer_request_redraw]
    /\ UNCHANGED <<pc, now, args, directory, inner_size, config,
                   text_pipeline, picture_pipeline, picture_interval_instance,
                   pictures, control_flow, rotations, last_picture,
                   set_picture_at>>

\* The timer arm drawing by itself instead of requesting a redraw.
ResumeTimeReached_DrawsDirectly ==
    /\ Running
    /\ control_flow.kind = "WaitUntil"
    /\ control_flow.deadline <= now
    /\ redraw_requested' = redraw_requested
    /\ control_flow' = set_wait_timeout(args.update_interval)
    /\ cycle' = Log("ResumeTimeReached", "none", NoSize, <<>>,
                    <<Call("renderer.draw", <<>>),
                      Call("control_flow.set_wait_timeout",
                           <<args.update_interval>>)>>,
                    Renderer_draw(picture_pipeline, text_pipeline))
    /\ UNCHANGED <<pc, now, args, directory, inner_size, config,
                   text_pipeline, picture_pipeline,
                   picture_interval_instance, pictures, rotations,
                   last_picture, set_picture_at>>

\* Lines 64-67: Event::NewEvents(StartCause::ResumeTimeReached), delivered
\* when the wait deadline has passed.
ResumeTimeReached ==
    /\ Running
    /\ control_flow.kind = "WaitUntil"
    /\ control_flow.deadline <= now
    /\ redraw_requested' = TRUE
    /\ control_flow' = set_wait_timeout(args.update_interval)
    /\ cycle' = Log("ResumeTimeReached", "none", NoSize, <<>>,
                    <<Call("renderer.request_redraw", <<>>),
                      Call("control_flow.set_wait_timeout",
                           <<args.update_interval>>)>>,
                    Renderer_request_redraw)
    /\ UNCHANGED <<pc, now, args, directory, inner_size, config,
                   text_pipeline, picture_pipeline, picture_interval_instance,
                   pictures, rotations, last_picture, set_picture_at>>

\* The redraw arm re-arming the wait after drawing: every redraw postpones
\* the timer.
RedrawRequested_Rearms ==
    /\ Running
    /\ match_window("main")
    /\ redraw_requested' = FALSE
    /\ control_flow' = set_wait_timeout(args.update_interval)
    /\ IF RotationDue(args.picture_interval, Elapsed)
       THEN \E i \in 1..Len(pictures) :
              LET s == Renderer_set_picture(picture_pipeline, pictures[i])
                  d == Renderer_draw(s.picture_pipeline, text_pipeline) IN
              /\ picture_pipeline' = s.picture_pipeline
              /\ last_picture' = pictures[i]
              /\ set_picture_at' = now
              /\ picture_interval_instance' = now
              /\ rotations' = rotations + 1
              /\ cycle' = Log("RedrawRequested", "main", NoSize, <<Elapsed>>,
                              <<Call("renderer.set_picture", pictures[i]),
                                Call("Instant::now", <<>>),
                                Call("renderer.draw", <<>>)>>,
                              s.gpu \o d)
       ELSE LET d == Renderer_draw(picture_pipeline, text_pipeline) IN
            /\ cycle' = Log("RedrawRequested", "main", NoSize, <<Elapsed>>,
                            <<Call("renderer.draw", <<>>)>>, d)
            /\ UNCHANGED <<picture_pipeline, picture_interval_instance,
                           rotations, last_picture, set_picture_at>>
    /\ UNCHANGED <<pc, now, args, directory, inner_size, config,
                   text_pipeline, pictures>>

\* The redraw arm asking for the next redraw itself after drawing.
RedrawRequested_AlsoRequests ==
    /\ Running
    /\ match_window("main")
    /\ redraw_requested' = TRUE
    /\ IF RotationDue(args.picture_interval, Elapsed)
       THEN \E i \in 1..Len(pictures) :
              LET s == Renderer_set_picture(picture_pipeline, pictures[i])
                  d == Renderer_draw(s.picture_pipeline, text_pipeline) IN
              /\ picture_pipeline' = s.picture_pipeline
              /\ last_picture' = pictures[i]
              /\ set_picture_at' = now
              /\ picture_interval_instance' = now
              /\ rotations' = rotations + 1
              /\ cycle' = Log("RedrawRequested", "main", NoSize, <<Elapsed>>,
                              <<Call("renderer.set_picture", pictures[i]),
                                Call("Instant::now", <<>>),
                                Call("renderer.draw", <<>>),
                                Call("renderer.request_redraw", <<>>)>>,
                              s.gpu \o d \o Renderer_request_redraw)
       ELSE LET d == Renderer_draw(picture_pipeline, text_pipeline) IN
            /\ cycle' = Log("RedrawRequested", "main", NoSize, <<Elapsed>>,
                            <<Call("renderer.draw", <<>>),
                              Call("renderer.request_redraw", <<>>)>>,
                            d \o Renderer_request_redraw)
            /\ UNCHANGED <<picture_pipeline, picture_interval_instance,
                           rotations, last_picture, set_picture_at>>
    /\ UNCHANGED <<pc, now, args, directory, inner_size, config,
                   text_pipeline, pictures, control_flow>>

\* The redraw arm with draw in the else branch of the rotation check: a
\* redraw that swaps the picture returns without drawing it.
RedrawRequested_SwapWithoutDraw ==
    /\ Running
    /\ match_window("main")
    /\ redraw_requested' = FALSE
    /\ IF RotationDue(args.picture_interval, Elapsed)
       THEN \E i \in 1..Len(pictures) :
              LET s == Renderer_set_picture(picture_pipeline, pictures[i]) IN
              /\ picture_pipeline' = s.picture_pipeline
              /\ last_picture' = pictures[i]
              /\ set_picture_at' = now
              /\ picture_interval_instance' = now
              /\ rotations' = rotations + 1
              /\ cycle' = Log("RedrawRequested", "main", NoSize, <<Elapsed>>,
                              <<Call("renderer.set_picture", pictures[i]),
                                Call("Instant::now", <<>>)>>,
                              s.gpu)
       ELSE LET d == Renderer_draw(picture_pipeline, text_pipeline) IN
            /\ cycle' = Log("RedrawRequested", "main", NoSize, <<Elapsed>>,
                            <<Call("renderer.draw", <<>>)>>, d)
            /\ UNCHANGED <<picture_pipeline, picture_interval_instance,
                           rotations, last_picture, set_picture_at>>
    /\ UNCHANGED <<pc, now, args, directory, inner_size, config,
                   text_pipeline, pictures, control_flow>>

\* Lines 68-74: Event::RedrawRequested for the Renderer's window. The window
\* system's pending request is consumed by the delivery.
RedrawRequested ==
    /\ Running
    /\ match_window("main")
    /\ redraw_requested' = FALSE
    /\ IF RotationDue(args.picture_interval, Elapsed)
       THEN \E i \in 1..Len(pictures) :
              LET s == Renderer_set_picture(picture_pipeline, pictures[i])
                  d == Renderer_draw(s.picture_pipeline, text_pipeline) IN
              /\ picture_pipeline' = s.picture_pipeline
              /\ last_picture' = pictures[i]
              /\ set_picture_at' = now
              /\ picture_interval_instance' = now
              /\ rotations' = rotations + 1
              /\ cycle' = Log("RedrawRequested", "main", NoSize, <<Elapsed>>,
                              <<Call("renderer.set_picture", pictures[i]),
                                Call("Instant::now", <<>>),
                                Call("renderer.draw", <<>>)>>,
                              s.gpu \o d)
       ELSE LET d == Renderer_draw(picture_pipeline, text_pipeline) IN
            /\ cycle' = Log("RedrawRequested", "main", NoSize, <<Elapsed>>,
                            <<Call("renderer.draw", <<>>)>>, d)
            /\ UNCHANGED <<picture_pipeline, picture_interval_instance,
                           rotations, last_picture, set_picture_at>>
    /\ UNCHANGED <<pc, now, args, directory, inner_size, config,
                   text_pipeline, pictures, control_flow>>

\* Lines 77-82: WindowEvent::Resized and WindowEvent::ScaleFactorChanged for
\* the Renderer's window both call renderer.resize with the new inner size.
WindowResize(kind, new_inner_size) ==
    /\ Running
    /\ match_window("main")
    /\ inner_size' = new_inner_size
    /\ LET r == Renderer_resize(new_inner_size) IN
       /\ config' = r.config
       /\ text_pipeline' = r.text_pipeline
       /\ cycle' = Log(kind, "main", new_inner_size, <<>>,
                       <<Call("renderer.resize",
                              <<new_inner_size.width, new_inner_size.height>>)>>,
                       r.gpu)
    /\ UNCHANGED <<pc, now, args, directory, picture_pipeline,
                   picture_interval_instance, pictures, control_flow,
                   redraw_requested, rotations, last_picture, set_picture_at>>

Resized == \E size \in Sizes : WindowResize("Resized", size)

ScaleFactorChanged == \E size \in Sizes : WindowResize("ScaleFactorChanged", size)

\* Lines 83-85: WindowEvent::CloseRequested for the Renderer's window.
CloseRequested ==
    /\ Running
    /\ match_window("main")
    /\ control_flow' = set_exit
    /\ cycle' = Log("CloseRequested", "main", NoSize, <<>>,
                    <<Call("control_flow.set_exit", <<>>)>>, <<>>)
    /\ UNCHANGED <<pc, now, args, directory, inner_size, config,
                   text_pipeline, picture_pipeline, picture_interval_instance,
                   pictures, redraw_requested, rotations, last_picture,
                   set_picture_at>>

\* Events the closure's last arms (lines 86 and 89) match: any other window
\* event of the Renderer's window, every event of another window, and the
\* loop's housekeeping events.
IgnoredEvents ==
    { [kind |-> "Focused", window |-> "main", size |-> NoSize],
      [kind |-> "RedrawRequested", window |-> "other", size |-> NoSize],
      [kind |-> "Resized", window |-> "other",
       size |-> [width |-> 640, height |-> 480]],
      [kind |-> "CloseRequested", window |-> "other", size |-> NoSize],
      [kind |-> "MainEventsCleared", window |-> "none", size |-> NoSize] }

\* The window-event arm without its match_window guard: a Resized event of
\* another window resizes the Renderer.
Ignored_WithoutWindowCheck ==
    /\ Running
    /\ \E e \in IgnoredEvents :
         IF e.kind = "Resized"
         THEN LET r == Renderer_resize(e.size) IN
              /\ config' = r.config
              /\ text_pipeline' = r.text_pipeline
              /\ cycle' = Log(e.kind, e.window, e.size, <<>>,
                              <<Call("renderer.resize",
                                     <<e.size.width, e.size.height>>)>>,
                              r.gpu)
         ELSE /\ cycle' = Log(e.kind, e.window, e.size, <<>>, <<>>, <<>>)
              /\ UNCHANGED <<config, text_pipeline>>
    /\ UNCHANGED <<pc, now, args, directory, inner_size, picture_pipeline,
                   picture_interval_instance, pictures, control_flow,
                   redraw_requested, rotations, last_picture, set_picture_at>>

Ignored ==
    /\ Running
    /\ \E e \in IgnoredEvents :
         /\ e.window = "none" \/ e.kind = "Focused" \/ ~match_window(e.window)
         /\ cycle' = Log(e.kind, e.window, e.size, <<>>, <<>>, <<>>)
    /\ UNCHANGED <<pc, now, args, directory, inner_size, config,
                   text_pipeline, picture_pipeline, picture_interval_instance,
                   pictures, control_flow, redraw_requested, rotations,
                   last_picture, set_picture_at>>

\* Event::LoopDestroyed, the last event once the exit has been requested; the
\* closure ignores it (line 89) and event_loop.run ends the process.
LoopDestroyed ==
    /\ Running
    /\ control_flow.kind = "ExitWithCode"
    /\ pc' = "exited"
    /\ cycle' = Log("LoopDestroyed", "none", NoSize, <<>>, <<>>, <<>>)
    /\ UNCHANGED <<now, args, directory, inner_size, config, text_pipeline,
                   picture_pipeline, picture_interval_instance, pictures,
                   control_flow, redraw_requested, rotations, last_picture,
                   set_picture_at>>

Startup == RendererNew \/ InstantNow \/ LoadPictures \/ FirstPicture

Next ==
    \/ Startup
    \/ Tick(MaxTime)
    \/ NewEventsInit
    \/ ResumeTimeReached
    \/ RedrawRequested
    \/ Resized
    \/ ScaleFactorChanged
    \/ CloseRequested
    \/ Ignored
    \/ LoopDestroyed

Spec == Init /\ [][Next]_vars

\* ------------------------------------------------ the rotation scenario

\* The program after startup and Event::NewEvents(Init), all at time 0: the
\* redraw interval is 1 unit and the rotation interval one of
\* ScenarioIntervals.
ScenarioDirectory ==
    [readable |-> TRUE, entries |-> <<ValidA, Hidden, Corrupt, ValidB>>]

ScenarioInit ==
    /\ pc = "event_loop"
    /\ now = 0
    /\ args \in [update_interval : {1},
                 picture_interval : ScenarioIntervals,
                 picture : PictureSizes]
    /\ directory = ScenarioDirectory
    /\ inner_size = [width |-> 800, height |-> 480]
    /\ LET r == Renderer_new(inner_size, args.picture.width, args.picture.height)
           loaded == load_pictures(directory, args.picture.width,
                                   args.picture.height) IN
       /\ config = r.config
       /\ text_pipeline = r.text_pipeline
       /\ pictures = loaded
       /\ \E i \in 1..Len(loaded) :
            /\ picture_pipeline =
                   Renderer_set_picture(r.picture_pipeline, loaded[i]).picture_pipeline
            /\ last_picture = loaded[i]
    /\ set_picture_at = 0
    /\ picture_interval_instance = 0
    /\ control_flow = [kind |-> "WaitUntil", deadline |-> args.update_interval]
    /\ redraw_requested = FALSE
    /\ rotations = 0
    /\ cycle = Log("Init", "none", NoSize, <<>>,
                   <<Call("control_flow.set_wait_timeout",
                          <<args.update_interval>>)>>, <<>>)

\* The timer fires as soon as it is due and the window system answers every
\* redraw request at once: redraw k is processed at time k.
ScenarioNext ==
    \/ /\ ~redraw_requested
       /\ now < control_flow.deadline
       /\ Tick(ScenarioRedraws)
    \/ /\ ~redraw_requested
       /\ ResumeTimeReached
    \/ /\ redraw_requested
       /\ RedrawRequested

ScenarioSpec == ScenarioInit /\ [][ScenarioNext]_vars

\* All ScenarioRedraws redraws have been processed.
ScenarioDone ==
    /\ now = ScenarioRedraws
    /\ ~redraw_requested
    /\ control_flow.deadline > now

\* ------------------------------------------------------------------ claims

\* ------------------------------------------- the prompt window system

\* A window system that serves the loop without delay: NewEvents(Init) is
\* delivered as soon as event_loop.run is called, the wait armed by
\* set_wait_timeout ends at its deadline, and a requested redraw is delivered
\* before the clock moves. Time passes only while nothing is due.
Urgent ==
    \/ pc = "event_loop_init"
    \/ /\ pc = "event_loop"
       /\ control_flow.kind = "WaitUntil"
       /\ (control_flow.deadline <= now \/ redraw_requested)

TimedNext ==
    \/ Startup
    \/ (~Urgent /\ Tick(MaxTime))
    \/ NewEventsInit
    \/ ResumeTimeReached
    \/ RedrawRequested
    \/ Resized
    \/ ScaleFactorChanged
    \/ CloseRequested
    \/ Ignored
    \/ LoopDestroyed

TimedSpec == Init /\ [][TimedNext]_vars

\* ---------------------------------------------- the loop under fairness

\* The clock does not stop short of the model's horizon, and the window
\* system resumes a loop whose WaitUntil deadline has passed
\* (StartCause::ResumeTimeReached); nothing is assumed about when or how
\* often any other event arrives.
\* The program is started on one readable directory with one picture in it
\* and a window of 800x480.
LiveInit ==
    /\ Init
    /\ directory = [readable |-> TRUE, entries |-> <<ValidA>>]
    /\ inner_size = [width |-> 800, height |-> 480]

LiveSpec ==
    /\ LiveInit
    /\ [][Next]_vars
    /\ WF_vars(Tick(MaxTime))
    /\ WF_vars(ResumeTimeReached)

CountOp(calls, op) == Cardinality({i \in DOMAIN calls : calls[i].op = op})

Ops(calls) == [i \in DOMAIN calls |-> calls[i].op]

\* C1: a redraw processed when the elapsed time is at least the rotation
\* interval (equality included) makes exactly one set_picture call and resets
\* the baseline to the current time before draw is called.
C1_SwapAtOrAfterInterval ==
    [][(RedrawRequested /\ args.picture_interval <= Elapsed)
         => /\ Ops(cycle'.calls) =
                   <<"renderer.set_picture", "Instant::now", "renderer.draw">>
            /\ CountOp(cycle'.gpu, "picture_pipeline.set_picture") = 1
            /\ picture_interval_instance' = now]_vars

\* C2: a redraw processed when the elapsed time is strictly less than the
\* rotation interval makes no set_picture call, leaves the baseline (and the
\* picture) unchanged and calls draw exactly once.
C2_NoSwapBeforeInterval ==
    [][(RedrawRequested /\ Elapsed < args.picture_interval)
         => /\ CountOp(cycle'.calls, "renderer.set_picture") = 0
            /\ CountOp(cycle'.gpu, "picture_pipeline.set_picture") = 0
            /\ picture_interval_instance' = picture_interval_instance
            /\ picture_pipeline' = picture_pipeline
            /\ rotations' = rotations
            /\ CountOp(cycle'.calls, "renderer.draw") = 1
            /\ CountOp(cycle'.gpu, "frame.present") = 1]_vars

\* A redraw was processed 1 unit after the baseline with an interval of 2:
\* draw was called, set_picture was not.
C2_Witness ==
    /\ cycle.kind = "RedrawRequested"
    /\ cycle.elapsed = <<1>>
    /\ args.picture_interval = 2
    /\ cycle.calls = <<Call("renderer.draw", <<>>)>>
    /\ rotations = 0

\* C3: with redraws every unit from 1 unit after the baseline, the first swap
\* happens at the first redraw whose elapsed time is at least the interval;
\* with an interval of 10 a run of 15 redraws makes exactly one swap, at the
\* redraw at elapsed time 10.
C3_ScenarioSwapAtInterval ==
    /\ [][(RedrawRequested /\ rotations = 0)
            => (rotations' = 1 <=> args.picture_interval <= Elapsed)]_vars
    /\ []((ScenarioDone /\ args.picture_interval = 10)
            => (rotations = 1 /\ picture_interval_instance = 10))

\* C4: whenever the surface has been configured, by Renderer::new from the
\* window's initial size or by resize events, its configuration has
\* width > 0 and height > 0.
C4_ConfigNeverZero ==
    pc # "renderer_new" => (config.width > 0 /\ config.height > 0)

ResizeKinds == {"Resized", "ScaleFactorChanged"}

\* C5: a resize or scale-change event with a zero width or height changes
\* neither the configuration nor the Text Overlay Layer and reconfigures
\* nothing.
C5_ZeroResizeIsNoOp ==
    [][\A kind \in ResizeKinds, size \in Sizes :
         (WindowResize(kind, size) /\ (size.width = 0 \/ size.height = 0))
           => /\ config' = config
              /\ text_pipeline' = text_pipeline
              /\ picture_pipeline' = picture_pipeline
              /\ cycle'.gpu = <<>>]_vars

\* A zero-height resize was processed and a 640x480 configuration survived it.
C5_Witness ==
    /\ cycle.kind \in ResizeKinds
    /\ cycle.window = "main"
    /\ cycle.size = [width |-> 800, height |-> 0]
    /\ cycle.gpu = <<>>
    /\ config = [width |-> 640, height |-> 480]

\* C6: a resize or scale-change event with width > 0 and height > 0 sets the
\* configuration to exactly the new values, reconfigures the surface with
\* them, gives the Text Overlay Layer one resize call with them and leaves the
\* Picture Layer alone.
C6_ResizeApplied ==
    [][\A kind \in ResizeKinds, size \in Sizes :
         (WindowResize(kind, size) /\ size.width > 0 /\ size.height > 0)
           => /\ config' = size
              /\ text_pipeline' = size
              /\ cycle'.gpu =
                     <<Call("surface.configure", <<size.width, size.height>>),
                       Call("text_pipeline.resize", <<size.width, size.height>>)>>
              /\ picture_pipeline' = picture_pipeline]_vars

\* A scale change to 640x480 was processed on a window built 800x480 with a
\* picture size of its own.
C6_Witness ==
    /\ cycle.kind = "ScaleFactorChanged"
    /\ cycle.window = "main"
    /\ cycle.size = [width |-> 640, height |-> 480]
    /\ config = [width |-> 640, height |-> 480]
    /\ text_pipeline = [width |-> 640, height |-> 480]
    /\ picture_pipeline.width = args.picture.width
    /\ picture_pipeline.height = args.picture.height

\* A step in which the closure handles one event.
EventStep ==
    \/ NewEventsInit
    \/ ResumeTimeReached
    \/ RedrawRequested
    \/ Resized
    \/ ScaleFactorChanged
    \/ CloseRequested
    \/ Ignored
    \/ LoopDestroyed

RendererOps ==
    {"renderer.request_redraw", "renderer.set_picture", "renderer.draw",
     "renderer.resize"}

\* C7: once a close request has been processed, no event handled afterwards
\* performs a Renderer operation.
C7_NoRendererOpAfterClose ==
    [][(control_flow.kind = "ExitWithCode" /\ EventStep)
         => /\ \A i \in DOMAIN cycle'.calls : cycle'.calls[i].op \notin RendererOps
            /\ cycle'.gpu = <<>>]_vars

DrawOrder ==
    <<"surface.get_current_texture", "picture_pipeline.draw",
      "text_pipeline.draw", "queue.submit", "frame.present">>

IsDrawCall(call) == call.op \in {DrawOrder[i] : i \in DOMAIN DrawOrder}

Range(seq) == {seq[i] : i \in DOMAIN seq}

\* C9: at every draw the picture pass draws exactly the data of the latest
\* set_picture call, a buffer of the picture set; and set_picture itself
\* neither draws nor requests a redraw.
C9_DrawShowsLastPicture ==
    /\ CountOp(cycle.calls, "renderer.draw") = 1
         => \E i \in DOMAIN cycle.gpu :
              /\ cycle.gpu[i].op = "picture_pipeline.draw"
              /\ cycle.gpu[i].arg = last_picture
              /\ last_picture \in Range(pictures)
    /\ cycle.kind = "startup"
         => /\ Ops(cycle.gpu) = <<"picture_pipeline.set_picture">>
            /\ ~redraw_requested
    /\ CountOp(cycle.gpu, "surface.get_current_texture")
         = CountOp(cycle.calls, "renderer.draw")
    /\ CountOp(cycle.gpu, "window.request_redraw")
         = CountOp(cycle.calls, "renderer.request_redraw")

\* A rotation picked the second picture of a set of two and the draw of the
\* same redraw showed it.
C9_Witness ==
    /\ cycle.kind = "RedrawRequested"
    /\ Len(pictures) = 2
    /\ Len(cycle.calls) = 3
    /\ cycle.calls[1] = Call("renderer.set_picture", pictures[2])
    /\ cycle.gpu[3] = Call("picture_pipeline.draw", pictures[2])

\* C10: every timer firing calls request_redraw exactly once and re-arms the
\* wait with the update interval; no other event requests a redraw.
C10_TimerAloneRequestsRedraw ==
    [][/\ ResumeTimeReached
            => /\ cycle'.calls =
                      <<Call("renderer.request_redraw", <<>>),
                        Call("control_flow.set_wait_timeout",
                             <<args.update_interval>>)>>
               /\ cycle'.gpu = <<Call("window.request_redraw", <<>>)>>
               /\ redraw_requested'
               /\ control_flow' = [kind |-> "WaitUntil",
                                   deadline |-> now + args.update_interval]
               /\ pc' = "event_loop"
       /\ cycle'.kind # "ResumeTimeReached"
            => /\ CountOp(cycle'.calls, "renderer.request_redraw") = 0
               /\ CountOp(cycle'.gpu, "window.request_redraw") = 0
               /\ redraw_requested' => redraw_requested]_vars

\* The timer fired at its deadline with an update interval of 2: a redraw is
\* requested and the next deadline is 2 units ahead.
C10_Witness ==
    /\ cycle.kind = "ResumeTimeReached"
    /\ args.update_interval = 2
    /\ redraw_requested
    /\ control_flow = [kind |-> "WaitUntil", deadline |-> now + 2]

\* The positions of main before event_loop.run is called.
BeforeLoop == {"renderer_new", "instant_now", "load_pictures", "first_picture"}

\* The picture directory could not be read, or load_pictures has returned an
\* empty collection.
NoPictures ==
    \/ ~directory.readable
    \/ (pc \notin {"renderer_new", "instant_now", "load_pictures"}
          /\ pictures = <<>>)

\* C11: when the picture directory is unreadable or yields no picture, main
\* panics before event_loop.run: the program is never in the event loop and
\* never exits through it, no event is handled, and no renderer.draw,
\* renderer.request_redraw or renderer.resize call is made.
C11_NoPicturesIsFatal ==
    NoPictures
      => /\ pc \in BeforeLoop \cup {"panicked"}
         /\ cycle.kind \in {"none", "Renderer::new"}
         /\ control_flow.kind = "Poll"
         /\ ~redraw_requested
         /\ (directory.readable /\ pc \notin {"first_picture", "panicked"})
              => pc \in {"renderer_new", "instant_now", "load_pictures"}
         /\ \A i \in DOMAIN cycle.calls :
              cycle.calls[i].op \notin
                  {"renderer.draw", "renderer.request_redraw",
                   "renderer.resize"}

\* A directory holding only a hidden file, a file that is no image and an
\* entry that cannot be read was loaded, and main panicked on the empty set.
C11_Witness ==
    /\ pc = "panicked"
    /\ directory.readable
    /\ Len(directory.entries) = 3
    /\ pictures = <<>>

\* The calls logged in c hold a set_picture call with no draw call after it.
Undrawn(c) ==
    \E i \in DOMAIN c.calls :
      /\ c.calls[i].op = "renderer.set_picture"
      /\ \A j \in (i + 1)..Len(c.calls) : c.calls[j].op # "renderer.draw"

\* C12 as stated: after any set_picture call, the startup one included, no
\* event other than the redraw whose draw displays the picture is processed
\* before that draw.
C12_EverySetPictureThenDraw ==
    [][Undrawn(cycle)
         => ~(\/ NewEventsInit
              \/ ResumeTimeReached
              \/ Resized
              \/ ScaleFactorChanged
              \/ CloseRequested
              \/ Ignored)]_vars

\* C12 for the calls made inside the event loop: a set_picture call made
\* while handling an event is followed in the same handler by the baseline
\* reset and then by the draw call, with its one picture pass; no other call
\* and no other event lies between. Only the startup call
\* is left without a draw of its own.
C12_RotationThenDraw ==
    /\ Undrawn(cycle) => cycle.kind = "startup"
    /\ \A i \in DOMAIN cycle.calls :
         (cycle.calls[i].op = "renderer.set_picture" /\ cycle.kind # "startup")
           => /\ cycle.kind = "RedrawRequested"
              /\ Len(cycle.calls) = i + 2
              /\ cycle.calls[i + 1].op = "Instant::now"
              /\ cycle.calls[i + 2].op = "renderer.draw"
              /\ CountOp(cycle.gpu, "picture_pipeline.draw") = 1

\* A second rotation swapped the picture and drew in one redraw.
C12_Witness ==
    /\ cycle.kind = "RedrawRequested"
    /\ rotations = 2
    /\ Ops(cycle.calls) =
           <<"renderer.set_picture", "Instant::now", "renderer.draw">>

C14_RotationCheckOnlyAtRedraw ==
    /\ (cycle.kind = "RedrawRequested" /\ match_window(cycle.window))
         => /\ Len(cycle.elapsed) = 1
            /\ CountOp(cycle.calls, "renderer.draw") = 1
            /\ CountOp(cycle.calls, "renderer.set_picture") <= 1
    /\ ~(cycle.kind = "RedrawRequested" /\ match_window(cycle.window))
         => /\ cycle.elapsed = <<>>
            /\ CountOp(cycle.calls, "renderer.draw") = 0
            /\ \A i \in DOMAIN cycle.gpu : ~IsDrawCall(cycle.gpu[i])
    /\ cycle.kind = "ResumeTimeReached"
         => /\ Ops(cycle.calls) =
                   <<"renderer.request_redraw", "control_flow.set_wait_timeout">>
            /\ cycle.gpu = Renderer_request_redraw
    /\ CountOp(cycle.calls, "renderer.set_picture") = 1
         => cycle.kind \in {"startup", "RedrawRequested"}

\* The timer fired when the rotation was already due: the firing left the
\* picture alone and only asked for the redraw that will swap it.
C14_Witness ==
    /\ cycle.kind = "ResumeTimeReached"
    /\ redraw_requested
    /\ rotations = 0
    /\ RotationDue(args.picture_interval, Elapsed)
    /\ picture_pipeline.texture = last_picture

\* The length in bytes of one RGBA8 picture of the configured size.
PictureBytes == args.picture.width * args.picture.height * 4

\* C15: every buffer passed to set_picture, at startup and at every rotation,
\* is an element of the loaded picture set and has exactly
\* picture_width x picture_height x 4 bytes, as has every element of the set;
\* and once load_pictures has returned, the set never changes.
C15_PicturesFixedAndSized ==
    /\ [](/\ \A i \in DOMAIN pictures : Len(pictures[i]) = PictureBytes
          /\ \A i \in DOMAIN cycle.calls :
               cycle.calls[i].op = "renderer.set_picture"
                 => /\ cycle.calls[i].arg \in Range(pictures)
                    /\ Len(cycle.calls[i].arg) = PictureBytes
          /\ last_picture # <<>>
               => /\ last_picture \in Range(pictures)
                  /\ Len(last_picture) = PictureBytes)
    /\ [][pc \notin {"renderer_new", "instant_now", "load_pictures"}
            => pictures' = pictures]_vars

\* After two rotations the set still holds the two pictures it was loaded
\* with, and the one just set is one of them.
C15_Witness ==
    /\ rotations = 2
    /\ Len(pictures) = 2
    /\ pictures = load_pictures(directory, args.picture.width,
                                args.picture.height)
    /\ CountOp(cycle.calls, "renderer.set_picture") = 1
    /\ Len(last_picture) = 24

\* C16: an event that takes one of the closure's two empty arms (another
\* window event of the Renderer's window, any event of another window, the
\* loop's housekeeping events, LoopDestroyed included) makes no call at all
\* and leaves the surface configuration, both layers, the displayed picture,
\* the rotation baseline, the wait deadline, the pending redraw request and
\* the control flow as they were; short of LoopDestroyed, after which
\* event_loop.run ends, the loop stays where it was.
C16_OtherEventsIgnored ==
    [][(Ignored \/ LoopDestroyed)
         => /\ cycle'.calls = <<>>
            /\ cycle'.gpu = <<>>
            /\ cycle'.elapsed = <<>>
            /\ UNCHANGED <<config, text_pipeline, picture_pipeline,
                           last_picture, pictures, rotations,
                           picture_interval_instance, set_picture_at,
                           control_flow, redraw_requested, inner_size>>
            /\ Ignored => pc' = pc]_vars

\* A Resized event of another window, with a size the Renderer's window does
\* not have, was handled while a redraw was pending: configuration and
\* pending request are as before.
C16_Witness ==
    /\ cycle.kind = "Resized"
    /\ cycle.window = "other"
    /\ cycle.size = [width |-> 640, height |-> 480]
    /\ config = [width |-> 800, height |-> 480]
    /\ text_pipeline = [width |-> 800, height |-> 480]
    /\ redraw_requested
    /\ control_flow.kind = "WaitUntil"

\* The operation category a call of the closure belongs to.
Category(op) ==
    CASE op \in {"renderer.request_redraw", "control_flow.set_wait_timeout"}
           -> "timer"
      [] op \in {"renderer.set_picture", "Instant::now", "renderer.draw"}
           -> "redraw"
      [] op = "renderer.resize" -> "resize"
      [] op = "control_flow.set_exit" -> "close"
      [] OTHER -> "unknown"

\* The category of the GPU and window-system work a call results in.
GpuCategory(op) ==
    CASE op = "window.request_redraw" -> "timer"
      [] op = "picture_pipeline.set_picture" \/ op \in Range(DrawOrder)
           -> "redraw"
      [] op \in {"surface.configure", "text_pipeline.resize"} -> "resize"
      [] OTHER -> "unknown"

Categories(c) ==
    {Category(c.calls[i].op) : i \in DOMAIN c.calls}
      \cup {GpuCategory(c.gpu[i].op) : i \in DOMAIN c.gpu}

\* C17: each handled event does the work of at most one category, the one of
\* its own kind: a timer firing requests a redraw and re-arms the wait, a
\* redraw of the Renderer's window sets a picture at most once and draws, a
\* resize or scale change of it resizes, a close request of it sets the exit,
\* Init only arms the wait, and every other event does nothing. No event's
\* work holds operations of two categories.
C17_OneCategoryPerEvent ==
    pc \in {"event_loop", "exited"}
      => /\ Cardinality(Categories(cycle)) <= 1
         /\ Categories(cycle) \subseteq
              CASE cycle.kind = "Init" -> {"timer"}
                [] cycle.kind = "ResumeTimeReached" -> {"timer"}
                [] cycle.kind = "RedrawRequested" /\ match_window(cycle.window)
                     -> {"redraw"}
                [] cycle.kind \in ResizeKinds /\ match_window(cycle.window)
                     -> {"resize"}
                [] cycle.kind = "CloseRequested" /\ match_window(cycle.window)
                     -> {"close"}
                [] OTHER -> {}
         /\ cycle.kind = "Init" => Ops(cycle.calls) = <<"control_flow.set_wait_timeout">>

\* A close request was handled while a redraw request was pending and the
\* rotation was due: the event set the exit and did nothing of the redraw.
C17_Witness ==
    /\ cycle.kind = "CloseRequested"
    /\ Ops(cycle.calls) = <<"control_flow.set_exit">>
    /\ cycle.gpu = <<>>
    /\ redraw_requested
    /\ RotationDue(args.picture_interval, Elapsed)
    /\ pc = "event_loop"

\* C18: the first set_picture call is made before event_loop.run, so whenever
\* the loop can handle an event the Picture Layer already holds a buffer of
\* the picture set, and the picture pass of every draw, the first one and
\* one made before the rotation interval has passed included, draws such a
\* buffer.
C18_PictureSetBeforeAnyDraw ==
    /\ pc \in {"event_loop_init", "event_loop", "exited"}
         => /\ pictures # <<>>
            /\ picture_pipeline.texture \in Range(pictures)
    /\ \A i \in DOMAIN cycle.gpu :
         cycle.gpu[i].op = "picture_pipeline.draw"
           => /\ cycle.gpu[i].arg # <<>>
              /\ cycle.gpu[i].arg \in Range(pictures)
    /\ CountOp(cycle.calls, "renderer.draw") > 0
         => picture_pipeline.texture \in Range(pictures)

\* The first redraw came at elapsed time 0, before any rotation: it drew the
\* picture set at startup.
C18_Witness ==
    /\ cycle.kind = "RedrawRequested"
    /\ cycle.elapsed = <<0>>
    /\ rotations = 0
    /\ Ops(cycle.calls) = <<"renderer.draw">>
    /\ \E i \in DOMAIN cycle.gpu :
         /\ cycle.gpu[i].op = "picture_pipeline.draw"
         /\ cycle.gpu[i].arg \in Range(pictures)

\* C19: whenever a set_picture call is made in the loop, more than the
\* rotation interval has passed since the previous set_picture call, the
\* startup one included.
C19_DisplayedLongerThanInterval ==
    [][(RedrawRequested /\ rotations' = rotations + 1)
         => args.picture_interval < now - set_picture_at]_vars

\* C20: the wait deadline is set by Init and by a timer firing only; a close
\* request replaces the wait by the exit and keeps the deadline; redraws,
\* resizes, scale changes and ignored events leave the control flow as it
\* is. So however such events interleave, a wait whose deadline lies within
\* the horizon ends in a timer firing, which moves the deadline on and calls
\* request_redraw, unless the window is closed first.
C20_TimerNotStarved ==
    /\ [][/\ control_flow' # control_flow
               => NewEventsInit \/ ResumeTimeReached \/ CloseRequested
          /\ CloseRequested => control_flow'.deadline = control_flow.deadline
          /\ (RedrawRequested \/ Resized \/ ScaleFactorChanged \/ Ignored)
               => control_flow' = control_flow]_vars
    /\ \A d \in 0..MaxTime :
         (pc = "event_loop" /\ control_flow.kind = "WaitUntil"
            /\ control_flow.deadline = d)
           ~> (control_flow.kind = "ExitWithCode" \/ control_flow.deadline > d)

\* The timer has fired, and a resize handled after the new deadline had
\* passed left that deadline where it was.
C20_Witness ==
    /\ cycle.kind \in ResizeKinds
    /\ cycle.window = "main"
    /\ redraw_requested
    /\ control_flow.kind = "WaitUntil"
    /\ control_flow.deadline < now

====
